---- MODULE Spec2Model ----
(***************************************************************************)
(* Payment gate of SmartClause: the session payment state kept by          *)
(* payment_verification.py, the handlers of app.py that drive it, and the  *)
(* status polling of PaymentVerification.verify_payment against the        *)
(* M-PESA gateway.  Further parts, each with a specification of its own:   *)
(* phone sanitising, the encryption vault, the M-PESA client, the callback *)
(* endpoint, the document editor of bot.py and the sidebar payment form.   *)
(*                                                                         *)
(* Time is counted in seconds.  A Streamlit session runs one script at a   *)
(* time, so while a download request is polling (pc = "verify") no other   *)
(* operation of the session runs.  The wall clock moves in Tick, between   *)
(* requests and while a call is waiting on the gateway or sleeping; the    *)
(* seconds spent in time.sleep are counted in slept.                       *)
(***************************************************************************)
EXTENDS Integers, Sequences, FiniteSets, TLC

\* ---------------------------------------------------------------- bounds
MaxDocs == 2          \* documents generated in one session
MaxCheckouts == 2     \* push requests the gateway accepts in one session
MaxTime == 1850       \* the clock stops advancing here, seconds
MaxDownloads == 2     \* download / verify calls issued in one session

\* ------------------------------------------------------ program constants
max_attempts == 5             \* verify_payment(..., max_attempts=5, ...)
delay == 5                    \* verify_payment(..., delay=5), seconds
PaymentMaxAge == 1800         \* timedelta(minutes=30), seconds

NoDoc == 0                    \* current_document_id = None
NoCheckout == 0               \* no status query issued yet
None == [none |-> TRUE]       \* payment_status = None

DocIds == 1..MaxDocs
CheckoutIds == 1..MaxCheckouts
\* DocumentPricing.PRICES: what st.session_state.document_price can hold.
Amounts == {3000, 5000}

\* What one call of mpesa_handler.query_stk_push can give back: a body with
\* ResultCode '0', '1032', '1037', a body with any other / no ResultCode,
\* or a raised exception.
Answers == {"0", "1032", "1037", "other", "error"}

\* Gaps by which the wall clock moves between two reads of datetime.now().
TickSteps == {PaymentMaxAge, PaymentMaxAge + 1}

VARIABLES
    current_document_id,  \* st.session_state.current_document_id
    payment_status,       \* st.session_state.payment_status (None or PaymentStatus)
    payment_verified,     \* st.session_state.payment_verified
    now,                  \* datetime.now(), seconds
    pc,                   \* "idle", or "verify" inside verify_payment's loop
    caller,               \* who runs verify_payment: "download" or "direct"
    arg_checkout,         \* verify_payment's checkout_request_id argument
    attempts,             \* verify_payment's local attempts
    queries,              \* query_stk_push calls made by the current / last call
    slept,                \* seconds the current / last call spent in time.sleep
    last_answer,          \* the last gateway answer of the current / last call
    queried_id,           \* CheckoutRequestID of the last status query
    arg_document,         \* verify_payment's document_id argument
    result,               \* what the last handle_download_request returned
    vresult,              \* what the last verify_payment returned
    failed,               \* a download request for the current record ended on
                          \* a gateway-reported cancel / timeout
    last_op,              \* the operation that acted last
    downloads,            \* download / verify calls finished so far
    initiated_for,        \* CheckoutRequestID -> document the push was sent for
                          \* (NoDoc: the gateway has not issued that id yet)
    phone,                \* a call of _sanitize_phone_number
    vault,                \* the DataEncryption instances and their calls
    client,               \* the MpesaHandler instance and its calls
    endpoint,             \* the callback endpoint of endpoint.py
    editor                \* the document shown and its edit history

app == <<current_document_id, payment_status, payment_verified, now, pc,
         caller, arg_checkout, attempts, queries, slept, last_answer,
         queried_id, arg_document, result, vresult, failed, last_op,
         downloads, initiated_for>>

\* The variables of the gateway client (mpesa_handler.py) and of the callback
\* endpoint (endpoint.py); the session operations leave them alone.
phone_number == phone.phone_number  \* _sanitize_phone_number's argument
sanitized == phone.sanitized        \* what _sanitize_phone_number did with it

env_password == vault.env_password  \* os.environ ENCRYPTION_PASSWORD
encryptor == vault.encryptor        \* the DataEncryption instances built so far
data == vault.data                  \* the value handed to encrypt
encrypted == vault.encrypted        \* what encrypt of each instance gave for data
decrypted == vault.decrypted        \* decrypted[e][d]: what instance d's decrypt
                                    \* gave for the value encrypted by instance e

environ == client.environ           \* the names os.getenv finds set
handler == client.handler           \* the MpesaHandler instance (self)
clock == client.clock               \* time.time(), seconds
call == client.call                 \* the last initiate_stk_push / query_stk_push
sent == client.sent                 \* the request that call sent to the gateway

served == endpoint.served           \* requests the callback endpoint has answered
callback == endpoint.callback       \* its last request and response

current_document == editor.current_document  \* st.session_state.current_document
document_history == editor.document_history  \* st.session_state.document_history
show_download == editor.show_download        \* st.session_state.show_download
backend == <<phone, vault, client, endpoint, editor>>

vars == <<app, backend>>

session == <<current_document_id, payment_status, payment_verified>>
poll == <<pc, caller, arg_checkout, arg_document, attempts, queries, slept,
          last_answer, queried_id, vresult>>

\* PaymentStatus(document_id, checkout_request_id, amount, timestamp),
\* verified and attempts keep their dataclass defaults.
PaymentStatus(d, c, a, t) ==
    [document_id |-> d, checkout_request_id |-> c, amount |-> a,
     timestamp |-> t, verified |-> FALSE, attempts |-> 0]

\* generate_document_id: a time-seeded id (second-resolution stamp plus the
\* hash of the microsecond clock string); successive calls give new ids.
generate_document_id == current_document_id + 1

\* A part of the backend that the run at hand does not use.
Idle == [idle |-> TRUE]

\* No call of _sanitize_phone_number has been made.
NoCall == [outcome |-> "none"]
PhoneIdle == phone = Idle

\* An absent password: a None argument, an unset environment variable.
Unset == ""
\* Optional[str]: None, or a string (the sequence of its characters).
PyNone == [is_none |-> TRUE, str |-> <<>>]
Str(s) == [is_none |-> FALSE, str |-> s]
\* The instances the tests build (test_different_passwords_different_results).
Encryptors == {"encryptor1", "encryptor2"}
NotBuilt == [password |-> Unset]
NoResult == [outcome |-> "none"]

\* The process before any DataEncryption instance is built, with
\* ENCRYPTION_PASSWORD env and the value d to encrypt.
NewVault(env, d) ==
    [env_password |-> env,
     encryptor |-> [e \in Encryptors |-> NotBuilt],
     data |-> d,
     encrypted |-> [e \in Encryptors |-> NoResult],
     decrypted |-> [e \in Encryptors |-> [f \in Encryptors |-> NoResult]]]

VaultIdle == vault = Idle

\* The settings MpesaHandler.__init__ reads with os.getenv, l.152-160.
Settings ==
    {"SAF_SHORTCODE", "SAF_TILL_NUMBER", "SAF_CONSUMER_KEY",
     "SAF_CONSUMER_SECRET", "SAF_ACCESS_TOKEN_API", "SAF_PASS_KEY",
     "SAF_STK_PUSH_API", "SAF_STK_PUSH_QUERY_API", "CALLBACK_URL"}

\* An object that does not exist yet has no attributes.
NoHandler == [state |-> "none"]
NoApiCall == [op |-> "none"]
NothingSent == [kind |-> "none"]

\* The process before MpesaHandler() is called, with the settings env in
\* its environment.
NewClient(env) ==
    [environ |-> env, handler |-> NoHandler, clock |-> 0,
     call |-> NoApiCall, sent |-> NothingSent]

ClientIdle == client = Idle

NoExchange == [status |-> 0]

\* The callback endpoint is not running.
EndpointIdle == endpoint = Idle

\* The document content is not followed.
EditorIdle == editor = Idle

BackendIdle ==
    PhoneIdle /\ VaultIdle /\ ClientIdle /\ EndpointIdle /\ EditorIdle

\* init_payment_state on a new session.
AppInit ==
    /\ current_document_id = NoDoc
    /\ payment_status = None
    /\ payment_verified = FALSE
    /\ now = 0
    /\ pc = "idle"
    /\ caller = "none"
    /\ arg_checkout = NoCheckout
    /\ attempts = 0
    /\ queries = 0
    /\ slept = 0
    /\ last_answer = "none"
    /\ queried_id = NoCheckout
    /\ arg_document = NoDoc
    /\ result = FALSE
    /\ vresult = FALSE
    /\ failed = FALSE
    /\ last_op = "init"
    /\ downloads = 0
    /\ initiated_for = [c \in CheckoutIds |-> NoDoc]

Init == AppInit /\ BackendIdle

\* The bookkeeping of the last verify_payment / handle_download_request call
\* is dropped when another operation of the session runs.
ForgetCall ==
    /\ caller' = "none"
    /\ arg_checkout' = NoCheckout
    /\ arg_document' = NoDoc
    /\ attempts' = 0
    /\ queries' = 0
    /\ slept' = 0
    /\ last_answer' = "none"
    /\ queried_id' = NoCheckout
    /\ vresult' = FALSE
    /\ UNCHANGED pc

\* reset_payment_state, run by generate_document on every generated document.
reset_payment_state_DuringPoll ==
    /\ UNCHANGED backend
    /\ current_document_id < MaxDocs
    /\ payment_status' = None
    /\ payment_verified' = FALSE
    /\ current_document_id' = generate_document_id
    /\ last_op' = "reset"
    /\ failed' = FALSE
    /\ IF pc = "idle" THEN ForgetCall ELSE UNCHANGED poll
    /\ UNCHANGED <<now, result, downloads, initiated_for>>

reset_payment_state_KeepsRecord ==
    /\ UNCHANGED backend
    /\ pc = "idle"
    /\ current_document_id < MaxDocs
    /\ current_document_id' = generate_document_id
    /\ last_op' = "reset"
    /\ ForgetCall
    /\ UNCHANGED <<payment_status, payment_verified, now, result,
                   failed, downloads, initiated_for>>

reset_payment_state ==
    /\ UNCHANGED backend
    /\ pc = "idle"
    /\ current_document_id < MaxDocs
    /\ payment_status' = None
    /\ payment_verified' = FALSE
    /\ current_document_id' = generate_document_id
    /\ last_op' = "reset"
    /\ failed' = FALSE
    /\ ForgetCall
    /\ UNCHANGED <<now, result, downloads, initiated_for>>

\* update_payment_status(checkout_request_id, amount)
update_payment_status_PushDocument(c, a) ==
    /\ payment_status' = PaymentStatus(initiated_for[c], c, a, now)
    /\ payment_verified' = FALSE
    /\ failed' = FALSE
    /\ UNCHANGED current_document_id

update_payment_status_KeepsFlag(c, a) ==
    /\ payment_status' = PaymentStatus(current_document_id, c, a, now)
    /\ failed' = FALSE
    /\ UNCHANGED <<payment_verified, current_document_id>>

update_payment_status(c, a) ==
    /\ payment_status' = PaymentStatus(current_document_id, c, a, now)
    /\ payment_verified' = FALSE
    /\ failed' = FALSE
    /\ UNCHANGED current_document_id

\* The CheckoutRequestID of the next accepted push: the gateway issues a new
\* id for every push request.
NewCheckouts ==
    {c \in CheckoutIds : initiated_for[c] = NoDoc
                          /\ \A b \in CheckoutIds : b < c => initiated_for[b] # NoDoc}

\* The "Pay Now" form of enhance_sidebar, shown once a document has been
\* generated: the push is sent for the current document, the gateway accepts
\* it (ResponseCode '0') with CheckoutRequestID c, and the record is bound.
PayNow ==
    /\ UNCHANGED backend
    /\ pc = "idle"
    /\ current_document_id # NoDoc
    /\ \E c \in NewCheckouts, a \in Amounts :
          /\ initiated_for' = [initiated_for EXCEPT ![c] = current_document_id]
          /\ update_payment_status(c, a)
    /\ last_op' = "pay"
    /\ ForgetCall
    /\ UNCHANGED <<now, result, downloads>>

\* update_payment_status called on its own with the CheckoutRequestID of a
\* push the gateway has accepted earlier in the session.
UpdatePaymentStatus ==
    /\ UNCHANGED backend
    /\ pc = "idle"
    /\ \E c \in CheckoutIds, a \in Amounts :
          /\ initiated_for[c] # NoDoc
          /\ update_payment_status(c, a)
    /\ last_op' = "update"
    /\ ForgetCall
    /\ UNCHANGED <<now, result, downloads, initiated_for>>

\* Wall-clock time passing.
Tick ==
    /\ UNCHANGED backend
    /\ \E d \in TickSteps :
          /\ now + d <= MaxTime
          /\ now' = now + d
    /\ UNCHANGED <<session, poll, result, failed, last_op, downloads,
                   initiated_for>>

\* ------------------------------------------------ verify_payment (l.21-50)
\* l.26: no record, or the record is bound to another document.
VerifyRefuses_NoDocCheck(d) == payment_status = None

VerifyRefuses(d) ==
    payment_status = None \/ payment_status.document_id # d

\* l.35: the gateway reports the payment as made.
IsSuccess_IntCompare(a) == a = "int 0"

IsSuccess(a) == a = "0"

\* l.39: the gateway reports the request as cancelled or timed out.
IsTerminalFailure_CancelOnly(a) == a \in {"1032"}

IsTerminalFailure(a) == a \in {"1032", "1037"}

\* l.43-44 and l.46-48: attempts after an iteration that did not return.
NextAttempts_ErrorNotCounted(a) == IF a = "error" THEN attempts ELSE attempts + 1

NextAttempts(a) == attempts + 1

\* l.43: time.sleep(delay) runs only after a body that was neither success
\* nor terminal failure; the except branch does not sleep.
SleepsAfter(a) == a # "error"

\* l.30: the loop runs while attempts < max_attempts.
LoopContinues(n) == n < max_attempts

\* A call that starts: its arguments, fresh locals, nothing queried yet.
StartCall(who, c, d) ==
    /\ caller' = who
    /\ arg_checkout' = c
    /\ arg_document' = d
    /\ attempts' = 0
    /\ queries' = 0
    /\ slept' = 0
    /\ last_answer' = "none"
    /\ queried_id' = NoCheckout

\* handle_download_request returns r before reaching verify_payment.
ReturnEarly(r) ==
    /\ pc' = "idle"
    /\ result' = r
    /\ downloads' = downloads + 1
    /\ UNCHANGED <<vresult, payment_verified, failed>>

\* verify_payment returns r.  l.107-116: handle_download_request returns the
\* same value and sets the flag when it is True; a direct call of
\* verify_payment leaves the session state alone.
VerifyReturns(r) ==
    /\ pc' = "idle"
    /\ vresult' = r
    /\ downloads' = downloads + 1
    /\ IF caller' = "download"
       THEN /\ result' = r
            /\ payment_verified' = IF r THEN TRUE ELSE payment_verified
            /\ failed' = IF last_answer' \in {"1032", "1037"} THEN TRUE ELSE failed
       ELSE UNCHANGED <<result, payment_verified, failed>>

\* l.112 and l.115: the message handle_download_request shows once
\* verify_payment has returned r.
VerificationMessage(r) ==
    IF r THEN "Payment verified successfully!"
    ELSE "Payment verification failed. Please ensure you have completed the payment"

\* l.113 and l.116: what a download request that has polled gives its
\* caller, the returned value and the message shown.
download_outcome ==
    [returns |-> result, message |-> VerificationMessage(vresult)]

\* l.39-40 with l.114-116: what the caller gets when the gateway has reported
\* the request cancelled or timed out.
AfterTerminalFailure ==
    [returns |-> FALSE, message |-> VerificationMessage(FALSE)]

\* l.90-91: the flag is set and the record belongs to the current document.
AlreadyVerified_AnyRecord ==
    /\ payment_status # None
    /\ payment_status.document_id = current_document_id

AlreadyVerified_RecordField ==
    /\ payment_status # None
    /\ payment_status.verified
    /\ payment_status.document_id = current_document_id

AlreadyVerified ==
    /\ payment_verified
    /\ payment_status # None
    /\ payment_status.document_id = current_document_id

\* l.99-100: the record is older than 30 minutes at the time of the check.
PaymentExpired_AtLeast == now - payment_status.timestamp >= PaymentMaxAge

PaymentExpired == now - payment_status.timestamp > PaymentMaxAge

\* handle_download_request up to the point where it returns or enters the
\* polling loop of verify_payment.
HandleDownloadRequest ==
    /\ UNCHANGED backend
    /\ pc = "idle"
    /\ downloads < MaxDownloads
    /\ last_op' = "download"
    /\ UNCHANGED <<current_document_id, now, initiated_for>>
    /\ IF current_document_id = NoDoc
       THEN /\ StartCall("download", NoCheckout, NoDoc)
            /\ ReturnEarly(FALSE)
            /\ UNCHANGED payment_status
       ELSE IF AlreadyVerified
       THEN /\ StartCall("download", NoCheckout, NoDoc)
            /\ ReturnEarly(TRUE)
            /\ UNCHANGED payment_status
       ELSE IF payment_status = None
       THEN /\ StartCall("download", NoCheckout, NoDoc)
            /\ ReturnEarly(FALSE)
            /\ UNCHANGED payment_status
       ELSE IF PaymentExpired
       THEN /\ StartCall("download", NoCheckout, NoDoc)
            /\ ReturnEarly(FALSE)
            /\ payment_status' = None
       ELSE /\ StartCall("download", payment_status.checkout_request_id,
                         current_document_id)
            /\ UNCHANGED payment_status
            /\ IF VerifyRefuses(current_document_id)
               THEN VerifyReturns(FALSE)
               ELSE /\ pc' = "verify"
                    /\ UNCHANGED <<payment_verified, result, vresult, failed,
                                   downloads>>

\* verify_payment called on its own (as the tests do) with any arguments.
VerifyPaymentCall ==
    /\ UNCHANGED backend
    /\ pc = "idle"
    /\ downloads < MaxDownloads
    /\ UNCHANGED <<current_document_id, payment_status, now, last_op,
                   initiated_for>>
    /\ \E c \in CheckoutIds, d \in DocIds :
          /\ StartCall("direct", c, d)
          /\ IF VerifyRefuses(d)
             THEN VerifyReturns(FALSE)
             ELSE /\ pc' = "verify"
                  /\ UNCHANGED <<payment_verified, result, vresult, failed,
                                 downloads>>

\* One iteration of the loop of verify_payment: one status query, its
\* outcome, and the loop test that follows.
VerifyStep ==
    /\ UNCHANGED backend
    /\ pc = "verify"
    /\ UNCHANGED <<current_document_id, payment_status, now, caller,
                   arg_checkout, arg_document, last_op, initiated_for>>
    /\ \E a \in Answers :
          /\ queries' = queries + 1
          /\ queried_id' = arg_checkout
          /\ last_answer' = a
          /\ IF a # "error" /\ IsSuccess(a)
             THEN /\ VerifyReturns(TRUE)
                  /\ UNCHANGED <<attempts, slept>>
             ELSE IF a # "error" /\ IsTerminalFailure(a)
             THEN /\ VerifyReturns(FALSE)
                  /\ UNCHANGED <<attempts, slept>>
             ELSE /\ attempts' = NextAttempts(a)
                  /\ IF SleepsAfter(a)
                     THEN slept' = slept + delay
                     ELSE UNCHANGED slept
                  /\ IF LoopContinues(attempts')
                     THEN UNCHANGED <<pc, payment_verified, result, vresult,
                                      failed, downloads>>
                     ELSE VerifyReturns(FALSE)

Next ==
    \/ reset_payment_state
    \/ PayNow
    \/ UpdatePaymentStatus
    \/ HandleDownloadRequest
    \/ VerifyPaymentCall
    \/ VerifyStep
    \/ Tick

Spec == Init /\ [][Next]_vars

\* ------------------------------------------------------------ properties
\* A step in which handle_download_request is entered.
DownloadStep ==
    /\ pc = "idle"
    /\ caller' = "download"
    /\ (downloads' = downloads + 1 \/ pc' = "verify")

\* A step in which handle_download_request returns (at once or after polling).
DownloadReturns ==
    /\ caller' = "download"
    /\ downloads' = downloads + 1

\* A step in which verify_payment is called on its own.
VerifyCallStep ==
    /\ pc = "idle"
    /\ caller' = "direct"
    /\ (downloads' = downloads + 1 \/ pc' = "verify")

\* C1: handle_download_request returns True only if a payment record exists,
\* the record is bound to current_document_id, and the record is verified:
\* payment_verified was True before the call, or a status query for the
\* record's checkout_request_id answered ResultCode '0' during the call.
C1_GateOpensOnlyForVerifiedRecord ==
    [][ (DownloadReturns /\ result') =>
           /\ payment_status' # None
           /\ payment_status'.document_id = current_document_id'
           /\ \/ payment_verified /\ queries' = 0
              \/ /\ queries' >= 1
                 /\ last_answer' = "0"
                 /\ queried_id' = payment_status'.checkout_request_id ]_vars

C1_Witness ==
    /\ last_op = "download" /\ caller = "download" /\ pc = "idle"
    /\ result /\ last_answer = "0" /\ queries = 2
    /\ payment_status # None
    /\ queried_id = payment_status.checkout_request_id

\* C2 (as claimed): a download request made when the record is verified and
\* bound to the current document but older than 30 minutes returns False and
\* clears the record.
C2_VerifiedRecordExpires ==
    [][ (DownloadStep /\ AlreadyVerified /\ PaymentExpired) =>
           (DownloadReturns /\ ~result' /\ payment_status' = None) ]_vars

\* C3: after reset_payment_state the record is gone, the flag is False and a
\* document id is set; a download request that follows a reset with no new
\* payment bound in between returns False, whatever was verified before.
C3_ResetLocksNewArtifact ==
    /\ [](last_op = "reset" =>
             /\ payment_status = None
             /\ ~payment_verified
             /\ current_document_id # NoDoc)
    /\ [][ (current_document_id' # current_document_id) =>
              (last_op' = "reset" /\ current_document_id' \in DocIds) ]_vars
    /\ [][ (last_op = "reset" /\ DownloadStep) =>
              (DownloadReturns /\ ~result' /\ ~payment_verified'
               /\ queries' = 0) ]_vars

\* document 2 has just been generated in a session whose last download
\* request, for document 1, had returned True
C3_Witness ==
    /\ last_op = "reset" /\ current_document_id = 2
    /\ downloads = 1 /\ result
    /\ ~payment_verified /\ payment_status = None

\* C4: when the k-th status query of a call (k <= max_attempts) is the first
\* to answer ResultCode '0', all earlier ones having been non-terminal
\* bodies or errors, verify_payment returns True after exactly k queries,
\* and handle_download_request sets payment_verified and returns True.
C4_SuccessOnKthQuery ==
    last_answer = "0" =>
       /\ pc = "idle"
       /\ vresult
       /\ queries = attempts + 1
       /\ queries \in 1..max_attempts
       /\ (caller = "download" /\ last_op = "download" =>
              result /\ payment_verified)

\* success on the 3rd query, after one error and one non-terminal body
C4_Witness ==
    /\ last_answer = "0" /\ queries = 3 /\ attempts = 2 /\ slept = delay
    /\ caller = "download" /\ last_op = "download"
    /\ result /\ payment_verified

\* C5: once handle_download_request has returned True, every later
\* handle_download_request returns True without a status query, as long as
\* neither reset_payment_state nor update_payment_status has run in between.
C5_VerifiedStaysAuthorized ==
    [][ (last_op = "download" /\ result /\ DownloadStep) =>
           (DownloadReturns /\ result' /\ queries' = 0
            /\ UNCHANGED session) ]_vars

\* the second download request, made after the expiry window, returned True
\* with no query
C5_Witness ==
    /\ last_op = "download" /\ caller = "download" /\ pc = "idle"
    /\ downloads = 2 /\ result /\ queries = 0
    /\ payment_verified /\ payment_status # None
    /\ now >= PaymentMaxAge

\* C6: a status query answering ResultCode '1032' or '1037' ends
\* verify_payment with False in that very step, on whichever attempt: no
\* further query, no sleep, and payment_verified is not set.
C6_TerminalFailureStopsPolling ==
    [][ (queries' = queries + 1 /\ last_answer' \in {"1032", "1037"}) =>
           /\ pc' = "idle"
           /\ ~vresult'
           /\ slept' = slept /\ attempts' = attempts
           /\ queries' = attempts + 1
           /\ payment_verified' = payment_verified
           /\ (caller = "download" => ~result' /\ ~payment_verified') ]_vars

\* a timeout reported on the 3rd query of a download request
C6_Witness ==
    /\ last_answer = "1037" /\ queries = 3 /\ pc = "idle"
    /\ caller = "download" /\ last_op = "download"
    /\ ~result /\ ~payment_verified

\* C7: verify_payment never issues more than max_attempts status queries;
\* every iteration that does not return uses up one attempt; a call whose
\* answers hold no terminal outcome ends after exactly max_attempts queries
\* with False.
C7_BoundedPolling ==
    /\ [](/\ queries <= max_attempts
          /\ (pc = "verify" => attempts = queries /\ attempts < max_attempts)
          /\ (pc = "idle" /\ last_answer \in {"other", "error"} =>
                 queries = max_attempts /\ ~vresult))
    /\ [][ (pc = "verify" /\ queries' # queries) =>
              /\ queries' = queries + 1
              /\ (pc' = "idle" \/ attempts' = attempts + 1) ]_vars

\* five errors in a row: five queries, no sleep, False
C7_Witness ==
    /\ pc = "idle" /\ queries = max_attempts /\ slept = 0
    /\ last_answer = "error" /\ ~vresult
    /\ caller = "download" /\ ~result /\ ~payment_verified

\* C8: with no payment record handle_download_request returns False without
\* a status query; verify_payment returns False without a status query when
\* the record is absent or bound to another document than the one asked.
C8_NoRecordNoQuery ==
    /\ [][ (DownloadStep /\ payment_status = None) =>
              (DownloadReturns /\ ~result' /\ queries' = 0
               /\ queried_id' = NoCheckout /\ UNCHANGED session) ]_vars
    /\ [][ (VerifyCallStep /\
            (payment_status = None \/ payment_status.document_id # arg_document')) =>
              (pc' = "idle" /\ ~vresult' /\ queries' = 0
               /\ queried_id' = NoCheckout /\ UNCHANGED session) ]_vars

\* verify_payment asked about document 1 while the record is bound to 2
C8_Witness ==
    /\ caller = "direct" /\ pc = "idle" /\ queries = 0 /\ ~vresult
    /\ payment_status # None
    /\ payment_status.document_id = 2 /\ arg_document = 1
    /\ downloads = 2

\* C9 (as claimed): a payment is never recorded against an artifact other
\* than the one its push was initiated for; a binding for another artifact is
\* rejected and leaves the payment state as it was.
C9_StaleBindingRejected ==
    payment_status # None =>
        initiated_for[payment_status.checkout_request_id]
            = payment_status.document_id

\* C10 (as claimed): a record for which a download request has ended on a
\* gateway-reported cancel / timeout is never verified by a later request.
C10_FailedIsTerminal ==
    ~(failed /\ payment_verified)

C23_StaleUnverifiedRecordExpires ==
    /\ [][ (DownloadStep /\ payment_status # None /\ ~payment_verified) =>
              IF now - payment_status.timestamp > PaymentMaxAge
              THEN /\ DownloadReturns
                   /\ ~result'
                   /\ payment_status' = None
                   /\ queries' = 0 /\ queried_id' = NoCheckout
              ELSE /\ pc' = "verify"
                   /\ payment_status' = payment_status
                   /\ arg_checkout' = payment_status.checkout_request_id ]_vars
    /\ [][ (pc = "verify" /\ pc' = "idle") =>
              (queries' >= 1 /\ queried_id' = arg_checkout) ]_vars

\* the only download request of the session came 30 minutes and a second
\* after the payment was bound, and cleared the record
C23_Witness ==
    /\ last_op = "download" /\ caller = "download" /\ pc = "idle"
    /\ downloads = 1 /\ ~result /\ queries = 0
    /\ payment_status = None /\ ~payment_verified
    /\ now = PaymentMaxAge + 1
    /\ current_document_id = 1 /\ initiated_for[1] = 1

\* C24 (as claimed): within one verify_payment call the delay is slept
\* between any two consecutive status queries, whether the earlier one returned
\* a non-terminal result or raised an error: by the k-th query the call has
\* slept at least k - 1 delays.
C24_DelayBetweenQueries ==
    queries >= 1 => slept >= delay * (queries - 1)

\* A download request has polled and returned False.
DownloadFailedAfterPolling ==
    /\ caller = "download" /\ pc = "idle"
    /\ queries >= 1 /\ ~result

\* C25 (as claimed): the result and message a download request gives after
\* a gateway-confirmed cancel / timeout differ from those it gives when the
\* attempt budget ran out without a terminal outcome: what the caller gets
\* after a terminal failure, it gets only then.
C25_TerminalFailureToldApart ==
    DownloadFailedAfterPolling =>
        (last_answer \in {"1032", "1037"} <=>
            download_outcome = AfterTerminalFailure)

\* C29: after any sequence of reset_payment_state, update_payment_status and
\* handle_download_request, a payment record that exists is bound to
\* current_document_id, and payment_verified is True only while a record
\* exists.
C29_RecordBoundToCurrentDocument ==
    /\ payment_status # None =>
           payment_status.document_id = current_document_id
    /\ payment_verified => payment_status # None

\* a record bound for document 2 after two download requests
C29_Witness ==
    /\ last_op = "update" /\ downloads = 2
    /\ current_document_id = 2
    /\ payment_status # None /\ payment_status.document_id = 2
    /\ ~payment_verified

\* A step in which update_payment_status runs (from the Pay Now form or on
\* its own).
UpdateStep ==
    /\ pc = "idle"
    /\ last_op' \in {"pay", "update"}
    /\ now' = now
    /\ caller' = "none"

\* C30: update_payment_status, in any state, replaces the record by a new
\* unverified one bound to current_document_id, with the checkout id and
\* amount given and the current time, sets payment_verified to False and
\* leaves current_document_id alone; a download request that follows returns
\* True only after a status query for the new checkout id has answered '0'.
C30_UpdateReplacesRecord ==
    /\ [][ UpdateStep =>
              /\ payment_status' # None
              /\ payment_status'.document_id = current_document_id
              /\ payment_status'.checkout_request_id \in CheckoutIds
              /\ initiated_for'[payment_status'.checkout_request_id] # NoDoc
              /\ payment_status'.amount \in Amounts
              /\ payment_status'.timestamp = now
              /\ ~payment_status'.verified
              /\ payment_status'.attempts = 0
              /\ ~payment_verified'
              /\ current_document_id' = current_document_id ]_vars
    /\ [][ (last_op \in {"pay", "update"} /\ DownloadReturns /\ result') =>
              /\ queries' >= 1
              /\ last_answer' = "0"
              /\ queried_id' = payment_status.checkout_request_id ]_vars

\* a new checkout was bound for a document whose earlier payment had been
\* verified and downloaded
C30_Witness ==
    /\ last_op = "update" /\ downloads = 1 /\ result
    /\ current_document_id = 1
    /\ payment_status # None /\ payment_status.checkout_request_id = 2
    /\ initiated_for[1] = 1 /\ initiated_for[2] = 1
    /\ ~payment_verified

\* ============================ the document and its edits (app.py, bot.py)
MaxEdits == 2         \* versions kept in document_history at one time

\* The text of a document: the document id under which generate_document
\* produced it, and the number of edits applied to it since.
Content(d, n) == [artifact |-> d, edits |-> n]

\* st.session_state.current_document = None
NoDocument == Content(NoDoc, 0)

\* init_session_state (app.py l.58-59, l.66-67) and
\* initialize_sidebar_chatbot (bot.py l.373-374).
NewEditor ==
    [current_document |-> NoDocument, document_history |-> <<>>,
     show_download |-> FALSE]

\* generate_document (app.py l.575-590) followed by the success branch of
\* the prompt handler (app.py l.1071-1076): the new text is shown,
\* reset_payment_state runs, the download buttons are offered.
\* document_history is not touched.
GenerateDocument ==
    /\ pc = "idle"
    /\ current_document_id < MaxDocs
    /\ editor' = [editor EXCEPT
                     !.current_document = Content(generate_document_id, 0),
                     !.show_download = TRUE]
    /\ payment_status' = None
    /\ payment_verified' = FALSE
    /\ current_document_id' = generate_document_id
    /\ last_op' = "reset"
    /\ failed' = FALSE
    /\ ForgetCall
    /\ UNCHANGED <<now, result, downloads, initiated_for>>
    /\ UNCHANGED <<phone, vault, client, endpoint>>

\* edit_current_document (bot.py l.466-489): the text shown is pushed on
\* document_history, then replaced if the edit could be applied.
EditCurrentDocument ==
    /\ pc = "idle"
    /\ current_document # NoDocument
    /\ Len(document_history) < MaxEdits
    /\ \E applied \in BOOLEAN :
          editor' = [editor EXCEPT
             !.document_history = Append(document_history, current_document),
             !.current_document =
                 IF applied
                 THEN Content(current_document.artifact,
                              current_document.edits + 1)
                 ELSE current_document,
             !.show_download = IF applied THEN TRUE ELSE show_download]
    /\ UNCHANGED <<app, phone, vault, client, endpoint>>

\* undo_last_edit (bot.py l.618-626)
undo_last_edit ==
    /\ pc = "idle"
    /\ document_history # <<>>
    /\ editor' = [editor EXCEPT
          !.document_history = SubSeq(document_history, 1,
                                      Len(document_history) - 1),
          !.current_document = document_history[Len(document_history)],
          !.show_download = TRUE]
    /\ UNCHANGED <<app, phone, vault, client, endpoint>>

\* The "Clear Chat History" button (app.py l.834-842).
ClearChatHistory ==
    /\ pc = "idle"
    /\ current_document # NoDocument
    /\ editor' = [editor EXCEPT !.current_document = NoDocument,
                                !.show_download = FALSE]
    /\ UNCHANGED <<app, phone, vault, client, endpoint>>

\* A download button of show_download_buttons (app.py l.526-570): offered
\* while show_download is set and a text is shown; what is exported when
\* handle_download_request returns True is current_document.
DownloadDocument ==
    /\ show_download
    /\ current_document # NoDocument
    /\ HandleDownloadRequest

EditInit ==
    /\ AppInit
    /\ PhoneIdle
    /\ VaultIdle
    /\ ClientIdle
    /\ EndpointIdle
    /\ editor = NewEditor

EditNext ==
    \/ GenerateDocument
    \/ EditCurrentDocument
    \/ undo_last_edit
    \/ ClearChatHistory
    \/ PayNow
    \/ DownloadDocument
    \/ VerifyStep

EditSpec == EditInit /\ [][EditNext]_vars

\* C22 (as claimed): whenever handle_download_request returns True, the text
\* in current_document was produced under the document id the verified
\* payment is bound to; a text of an earlier document brought back by
\* undo_last_edit is not downloadable under a later document's payment.
C22_ExportedTextIsThePaidDocument ==
    [][ (DownloadReturns /\ result') =>
           /\ payment_status' # None
           /\ current_document'.artifact = payment_status'.document_id ]_vars

\* ================================================================ strings
\* A Python str is the sequence of its characters.
Digits == {"0", "1", "2", "3", "4", "5", "6", "7", "8", "9"}

\* The digits in order.
DigitChars == <<"0", "1", "2", "3", "4", "5", "6", "7", "8", "9">>

\* str.isdigit on one character
IsDigit(ch) == ch \in Digits

\* s.startswith(p)
startswith(s, p) == Len(s) >= Len(p) /\ SubSeq(s, 1, Len(p)) = p

\* --------------------------------- _sanitize_phone_number (l.294-326)
MaxHead == 3          \* leading digits of an input that are chosen freely
MaxTail == 7          \* digits of an input that follow them

SubscriberLen == 9            \* len(phone_digits) == 9
MsisdnLen == 12               \* len(phone_digits) == 12
CountryCode == <<"2", "5", "4">>
TrunkPrefix == <<"0">>

\* The digit strings tried as input: nothing, the trunk prefix or the country
\* code, then up to MaxHead digits of any kind, then a run of further digits.
HeadDigits == {"0", "2", "4", "5", "7"}
TailDigits == <<"1", "2", "3", "4", "5", "6", "7", "8", "9">>
HeadSeqs == UNION {[1..n -> HeadDigits] : n \in 0..MaxHead}
TailSeqs == {SubSeq(TailDigits, 1, n) : n \in 0..MaxTail}
DigitStrings ==
    {p \o h \o t : p \in {<<>>, TrunkPrefix, CountryCode},
                   h \in HeadSeqs, t \in TailSeqs}

\* The ways a user writes a number: bare, with a leading '+', in groups of
\* three separated by '-' or ' ', or followed by a letter.
RECURSIVE Grouped(_, _)
Grouped(d, sep) ==
    IF Len(d) <= 3 THEN d
    ELSE SubSeq(d, 1, 3) \o <<sep>> \o Grouped(SubSeq(d, 4, Len(d)), sep)

Styles == {"bare", "plus", "dash", "space", "letter"}
Written(d, style) ==
    CASE style = "bare" -> d
      [] style = "plus" -> <<"+">> \o d
      [] style = "dash" -> Grouped(d, "-")
      [] style = "space" -> Grouped(d, " ")
      [] style = "letter" -> d \o <<"a">>

PhoneInputs == {Written(d, st) : d \in DigitStrings, st \in Styles}

\* l.308: ''.join(filter(str.isdigit, phone_number))
DigitsOf(p) == SelectSeq(p, IsDigit)

\* l.311-320: the three input formats that get the country code.
WithCountryCode_SevenOnly(d) ==
    IF startswith(d, TrunkPrefix) THEN CountryCode \o Tail(d)
    ELSE IF startswith(d, <<"7">>) /\ Len(d) = SubscriberLen
         THEN CountryCode \o d
    ELSE d

WithCountryCode(d) ==
    IF startswith(d, TrunkPrefix) THEN CountryCode \o Tail(d)
    ELSE IF startswith(d, <<"7">>) /\ Len(d) = SubscriberLen
         THEN CountryCode \o d
    ELSE IF ~startswith(d, CountryCode) /\ Len(d) = SubscriberLen
         THEN CountryCode \o d
    ELSE d

\* l.323: the final format test
ValidFormat_PrefixOnly(d) == startswith(d, CountryCode)

ValidFormat(d) == startswith(d, CountryCode) /\ Len(d) = MsisdnLen

Returned(v) == [outcome |-> "returned", value |-> v]
ValueError == [outcome |-> "ValueError", value |-> <<>>]

sanitize_phone_number(p) ==
    LET d == WithCountryCode(DigitsOf(p))
    IN  IF ValidFormat(d) THEN Returned(d) ELSE ValueError

\* One call of _sanitize_phone_number on the input drawn in PhoneInit.
SanitizePhoneNumber ==
    /\ sanitized = NoCall
    /\ phone' = [phone EXCEPT !.sanitized = sanitize_phone_number(phone_number)]
    /\ UNCHANGED <<app, vault, client, endpoint, editor>>

PhoneInit ==
    /\ AppInit
    /\ VaultIdle
    /\ ClientIdle
    /\ EndpointIdle
    /\ EditorIdle
    /\ phone \in [phone_number : PhoneInputs, sanitized : {NoCall}]

PhoneNext == SanitizePhoneNumber

PhoneSpec == PhoneInit /\ [][PhoneNext]_vars

\* ------------------------------------------- properties of the sanitiser
\* The digits of the input that was sanitised.
InputDigits == DigitsOf(phone_number)

\* The nine subscriber digits of a digit string in one of the three forms:
\* country code + 9 digits, trunk prefix + 9 digits, 9 digits alone.
NineDigitForms(d) ==
    IF startswith(d, CountryCode) /\ Len(d) = Len(CountryCode) + SubscriberLen
    THEN {SubSeq(d, Len(CountryCode) + 1, Len(d))}
    ELSE IF startswith(d, TrunkPrefix) /\ Len(d) = Len(TrunkPrefix) + SubscriberLen
    THEN {Tail(d)}
    ELSE IF Len(d) = SubscriberLen
    THEN {d}
    ELSE {}

\* The same, where 9 digits alone are a subscriber number only if they begin
\* with neither the trunk prefix nor the country code.
NineDigitFormsUnprefixed(d) ==
    {x \in NineDigitForms(d) :
        Len(d) = SubscriberLen =>
            ~startswith(d, TrunkPrefix) /\ ~startswith(d, CountryCode)}

\* C14 (as claimed): an input whose digits are 254 + 9 digits, 0 + 9 digits
\* or 9 digits alone is returned as 254 followed by those 9 digits.
C14_NineDigitsNormalised ==
    sanitized # NoCall =>
        \A x \in NineDigitForms(InputDigits) :
            sanitized = Returned(CountryCode \o x)

\* C14 (amended): an input whose digits are 254 + 9 digits, 0 + 9 digits, or
\* 9 digits alone that begin with neither 0 nor 254, is returned as 254
\* followed by those 9 digits.
C14_UnprefixedNineDigitsNormalised ==
    sanitized # NoCall =>
        \A x \in NineDigitFormsUnprefixed(InputDigits) :
            sanitized = Returned(CountryCode \o x)

\* nine digits alone, written in groups, came back with the country code
C14_Witness ==
    /\ sanitized.outcome = "returned"
    /\ Len(InputDigits) = SubscriberLen
    /\ ~startswith(InputDigits, <<"7">>)
    /\ Len(phone_number) > SubscriberLen
    /\ sanitized.value = CountryCode \o InputDigits

\* The digits of a digit string that are left once one leading trunk prefix
\* or country code is taken off.
Significant(d) ==
    IF startswith(d, TrunkPrefix) THEN Tail(d)
    ELSE IF startswith(d, CountryCode) THEN SubSeq(d, Len(CountryCode) + 1, Len(d))
    ELSE d

\* C15: an empty input, an input without digits and an input with fewer than
\* 9 significant digits all raise ValueError; a returned value is exactly 12
\* digits and begins with 254.
C15_RejectsOrReturnsMsisdn ==
    sanitized # NoCall =>
        /\ (phone_number = <<>> \/ InputDigits = <<>>
            \/ Len(Significant(InputDigits)) < SubscriberLen)
                => sanitized = ValueError
        /\ sanitized.outcome = "returned" =>
                /\ Len(sanitized.value) = MsisdnLen
                /\ startswith(sanitized.value, CountryCode)
                /\ \A i \in 1..Len(sanitized.value) : IsDigit(sanitized.value[i])

\* 254 followed by eight digits, written with a '+', was rejected
C15_Witness ==
    /\ sanitized = ValueError
    /\ startswith(phone_number, <<"+">> \o CountryCode)
    /\ Len(Significant(InputDigits)) = SubscriberLen - 1

\* ========================================= DataEncryption (l.20-107)
MaxPlain == 2         \* characters of a plaintext

Passwords == {"password1", "password2"}
\* base64.urlsafe_b64encode(os.urandom(32)).decode(), l.36
RandomPasswords == {"urandom-a", "urandom-b"}
\* the random IV (and timestamp) Fernet puts into a token
Nonces == {"iv-a", "iv-b"}

PlainChars == {"2", "a"}
PlainTexts == UNION {[1..n -> PlainChars] : n \in 0..MaxPlain}
VaultData == {PyNone} \cup {Str(s) : s \in PlainTexts}

\* "not data"
Falsy(v) == v.is_none \/ v.str = <<>>

\* _derive_key: PBKDF2-HMAC-SHA256 of the password under the fixed salt,
\* taken to be collision free.
derive_key(password) == "pbkdf2-sha256:mpesa_encryption_salt_2024:" \o password

\* Fernet(key).encrypt(bytes): version, IV, the bytes enciphered under the
\* key, and the HMAC under the key.  A token is a string of symbols, each
\* standing for a block of its characters; ASCII text and its bytes
\* (str.encode / bytes.decode) are the same sequence.
Alphabet == Digits \cup PlainChars
AesBlock == [ch \in Alphabet |-> "aes:" \o ch]
Encipher(bytes) == [i \in 1..Len(bytes) |-> AesBlock[bytes[i]]]
Decipher(blocks) ==
    [i \in 1..Len(blocks) |-> CHOOSE ch \in Alphabet : AesBlock[ch] = blocks[i]]

Fernet_encrypt(key, iv, bytes) == <<"fernet", key, iv>> \o Encipher(bytes)

\* Fernet(key).decrypt(token) raises InvalidToken unless the token is well
\* formed and signed under the key
Fernet_valid_NoSignature(key, token) == Len(token) >= 3 /\ token[1] = "fernet"

Fernet_valid(key, token) ==
    Len(token) >= 3 /\ token[1] = "fernet" /\ token[2] = key

Fernet_decrypt_KeepsIv(token) == <<token[3]>> \o Decipher(SubSeq(token, 4, Len(token)))

Fernet_decrypt(token) == Decipher(SubSeq(token, 4, Len(token)))

urlsafe_b64encode(bytes) == <<"b64">> \o bytes

\* urlsafe_b64decode of text that encodes nothing gives bytes that are no token
urlsafe_b64decode(s) ==
    IF s # <<>> /\ Head(s) = "b64" THEN Tail(s) ELSE <<"garbage">>

Raised == [outcome |-> "raised", value |-> PyNone]
Gave(v) == [outcome |-> "returned", value |-> v]

\* DataEncryption.encrypt (l.56-74) of an instance holding key
encrypt(key, iv, d) ==
    IF Falsy(d) THEN Gave(d)
    ELSE Gave(Str(urlsafe_b64encode(Fernet_encrypt(key, iv, d.str))))

\* DataEncryption.decrypt (l.76-95) of an instance holding key
decrypt(key, x) ==
    IF Falsy(x) THEN Gave(x)
    ELSE LET token == urlsafe_b64decode(x.str)
         IN  IF Fernet_valid(key, token)
             THEN Gave(Str(Fernet_decrypt(token)))
             ELSE Raised

\* l.32-36: the password argument, else ENCRYPTION_PASSWORD, else a
\* generated one
ChosenPassword(password, env, generated) ==
    IF password # Unset THEN password
    ELSE IF env # Unset THEN env
    ELSE generated

\* DataEncryption.__init__ (l.23-41)
NewDataEncryption ==
    /\ \E e \in Encryptors, password \in Passwords \cup {Unset},
          generated \in RandomPasswords :
          /\ encryptor[e] = NotBuilt
          /\ LET chosen == ChosenPassword(password, env_password, generated)
             IN  vault' = [vault EXCEPT
                              !.encryptor[e] = [password |-> chosen,
                                                key |-> derive_key(chosen)]]
    /\ UNCHANGED <<app, phone, client, endpoint, editor>>

Encrypt ==
    /\ \E e \in Encryptors, iv \in Nonces :
          /\ encryptor[e] # NotBuilt
          /\ encrypted[e] = NoResult
          /\ vault' = [vault EXCEPT
                          !.encrypted[e] = encrypt(encryptor[e].key, iv, data)]
    /\ UNCHANGED <<app, phone, client, endpoint, editor>>

Decrypt ==
    /\ \E e \in Encryptors, d \in Encryptors :
          /\ encrypted[e] # NoResult
          /\ encryptor[d] # NotBuilt
          /\ decrypted[e][d] = NoResult
          /\ vault' = [vault EXCEPT
                          !.decrypted[e][d] = decrypt(encryptor[d].key,
                                                      encrypted[e].value)]
    /\ UNCHANGED <<app, phone, client, endpoint, editor>>

VaultInit ==
    /\ AppInit
    /\ PhoneIdle
    /\ ClientIdle
    /\ EndpointIdle
    /\ EditorIdle
    /\ vault \in {NewVault(env, d) : env \in Passwords \cup {Unset},
                                     d \in VaultData}

VaultNext ==
    \/ NewDataEncryption
    \/ Encrypt
    \/ Decrypt

VaultSpec == VaultInit /\ [][VaultNext]_vars

\* ---------------------------------------------- properties of the vault
\* C17: for a non-empty string, decrypt(encrypt(s)) on the same instance is s
\* and encrypt(s) is not s; encrypt('') is '' and encrypt(None) is None.
C17_RoundTrip ==
    \A e \in Encryptors :
        encrypted[e] # NoResult =>
            /\ Falsy(data) => encrypted[e] = Gave(data)
            /\ ~Falsy(data) =>
                  /\ encrypted[e].outcome = "returned"
                  /\ encrypted[e].value # data
                  /\ decrypted[e][e] # NoResult => decrypted[e][e] = Gave(data)

\* an instance that fell back to a generated password decrypted its own
\* ciphertext of a two-character string
C17_Witness ==
    /\ encryptor["encryptor1"].password \in RandomPasswords
    /\ Len(data.str) = 2
    /\ decrypted["encryptor1"]["encryptor1"] = Gave(data)

\* C18: two instances holding different passphrases give different
\* ciphertexts for a non-empty plaintext, and decrypt of one on the
\* ciphertext of the other raises.
C18_ForeignKeyFails ==
    \A e \in Encryptors, d \in Encryptors :
        (/\ encryptor[e] # NotBuilt /\ encryptor[d] # NotBuilt
         /\ encryptor[e].password # encryptor[d].password
         /\ ~Falsy(data)
         /\ encrypted[e] # NoResult) =>
            /\ encrypted[d] # NoResult => encrypted[e].value # encrypted[d].value
            /\ decrypted[e][d] # NoResult => decrypted[e][d] = Raised

\* both instances encrypted the plaintext with the same IV, and
\* encryptor2 failed on encryptor1's ciphertext
C18_Witness ==
    /\ encryptor["encryptor1"].password = "password1"
    /\ encryptor["encryptor2"].password = "password2"
    /\ ~Falsy(data)
    /\ encrypted["encryptor1"] # NoResult
    /\ encrypted["encryptor2"] # NoResult
    /\ encrypted["encryptor1"].value.str[4] = encrypted["encryptor2"].value.str[4]
    /\ decrypted["encryptor1"]["encryptor2"] = Raised

\* ============================================ MpesaHandler (l.142-456)
MaxClock == 3600      \* the client's clock stops advancing here, seconds

TokenLifetime == 3599         \* time.time() + 3599
MinTokenLen == 10             \* len(token) < 10
HttpOk == 200                 \* res.status_code != 200

\* l.173-182: the settings whose absence makes __init__ raise
required_vars ==
    {"SAF_SHORTCODE", "SAF_TILL_NUMBER", "SAF_CONSUMER_KEY",
     "SAF_CONSUMER_SECRET", "SAF_ACCESS_TOKEN_API", "SAF_PASS_KEY",
     "SAF_STK_PUSH_API", "CALLBACK_URL"}

\* Environments: everything set, or any one setting missing.
Environments == {Settings} \cup {Settings \ {v} : v \in Settings}

\* A token of n characters.
Token(n) == [i \in 1..n |-> "x"]

Reply(status, is_json, has_token, token) ==
    [raised |-> FALSE, status |-> status, is_json |-> is_json,
     has_token |-> has_token, token |-> token]

\* What the token endpoint can answer: a refusal that still carries a token,
\* a 200 whose body is not JSON, is JSON without the access_token member, or
\* holds a token of some length; or no answer at all (requests.get raises).
TokenReplies ==
    {Reply(401, TRUE, TRUE, Token(MinTokenLen)),
     Reply(HttpOk, FALSE, FALSE, <<>>),
     Reply(HttpOk, TRUE, FALSE, <<>>),
     Reply(HttpOk, TRUE, TRUE, Token(0)),
     Reply(HttpOk, TRUE, TRUE, Token(MinTokenLen - 1)),
     Reply(HttpOk, TRUE, TRUE, Token(MinTokenLen)),
     [raised |-> TRUE, status |-> 0, is_json |-> FALSE,
      has_token |-> FALSE, token |-> <<>>]}

\* get_mpesa_access_token (l.212-262) on the answer r of the token endpoint
get_mpesa_access_token(r) ==
    IF r.raised THEN Raised
    ELSE IF r.status # HttpOk THEN Gave(PyNone)
    ELSE IF ~r.is_json THEN Gave(PyNone)
    ELSE IF ~r.has_token THEN Gave(PyNone)
    ELSE IF r.token = <<>> \/ Len(r.token) < MinTokenLen THEN Gave(PyNone)
    ELSE Gave(Str(r.token))

\* f"Bearer {token}"
Bearer(token) ==
    Str(<<"Bearer ">> \o (IF token.is_none THEN <<"N", "o", "n", "e">>
                          ELSE token.str))

\* os.getenv(name) of a setting that is set: its value, one symbol here.
getenv(name) == <<"$" \o name>>

\* The decimal digits of n, lowest last, on at least width places.
RECURSIVE Decimal(_, _)
Decimal(n, width) ==
    IF n < 10 /\ width <= 1 THEN <<DigitChars[n + 1]>>
    ELSE Decimal(n \div 10, width - 1) \o <<DigitChars[(n % 10) + 1]>>

\* datetime.strftime("%Y%m%d%H%M%S"), l.265: the time to the second, written
\* in digits on a fixed number of places; times are counted from the
\* construction of the handler.
StampPlaces == 4
strftime(t) == Decimal(t, StampPlaces)

\* base64.b64encode(s.encode()).decode("utf-8"), l.267-268
b64encode(s) == <<"base64">> \o s

\* generate_password (l.264-268) for the timestamp it has just written
generate_password(timestamp) ==
    b64encode(getenv("SAF_SHORTCODE") \o getenv("SAF_PASS_KEY") \o timestamp)

\* MpesaHandler.__init__ (l.143-210): the instance built at time t with the
\* settings env and ENCRYPTION_PASSWORD password in the environment, the
\* passphrase generated drawn in case none is set, and the token endpoint
\* answering r; or the ValueError of l.186.
MpesaHandler(env, password, t, generated, r) ==
    IF ~(required_vars \subseteq env)
    THEN [state |-> "ValueError"]
    ELSE LET tok == get_mpesa_access_token(r)
             ok == tok.outcome = "returned" /\ ~Falsy(tok.value)
         IN  [state |-> "built",
              key |-> derive_key(ChosenPassword(Unset, password, generated)),
              access_token |-> IF ok THEN tok.value ELSE PyNone,
              authorization |-> IF ok THEN Bearer(tok.value) ELSE PyNone,
              access_token_expiration |->
                  IF ok THEN t + TokenLifetime ELSE 0,
              timestamp |-> strftime(t),
              password |-> generate_password(strftime(t)),
              token_reply |-> r]

\* MpesaHandler() is called.
NewMpesaHandler ==
    /\ handler.state = "none"
    /\ \E generated \in RandomPasswords, r \in TokenReplies :
          client' = [client EXCEPT !.handler =
                        MpesaHandler(environ, env_password, clock, generated, r)]
    /\ UNCHANGED <<app, phone, vault, endpoint, editor>>

\* The numbers handed to initiate_stk_push.
Subscriber == <<"7">> \o SubSeq(TailDigits, 1, SubscriberLen - 1)
PushPhones ==
    {Subscriber, TrunkPrefix \o Subscriber,
     Written(CountryCode \o Subscriber, "plus"),
     Written(CountryCode \o Subscriber, "dash"),
     SubSeq(TailDigits, 1, 5), <<>>}

\* What the gateway can answer to a push or status request: the request is
\* accepted, rejected, refused for its access token, answered with a body
\* that is not JSON, or requests.post raises.
GatewayReplies ==
    {"accepted", "rejected", "auth_error", "unparsable", "network_error"}

\* The answers that carry a status outside 200..299, with a JSON body.
Non2xx == {"rejected", "auth_error"}

\* response.json() (l.406, l.450) raises a JSONDecodeError, which is a
\* ValueError, on a body that is not JSON.
JsonRaises(reply) == reply = "unparsable"

\* How initiate_stk_push ends once the request has been made: an exception
\* of requests.post is re-raised (l.420-422), a ValueError is answered with
\* the validation result (l.417-419), any parsed body is returned (l.415).
PushOutcome(reply) ==
    IF reply = "network_error" THEN "raised"
    ELSE IF JsonRaises(reply) THEN "ResponseCode 1"
    ELSE "returned"

\* How query_stk_push ends: every exception is re-raised (l.454-456).
QueryOutcome(reply) ==
    IF reply = "network_error" \/ JsonRaises(reply) THEN "raised"
    ELSE "returned"

\* l.375-387: the members of the push payload that carry the phone number
PushPayload_LocalPartyA(p) ==
    [PartyA |-> TrunkPrefix \o SubSeq(p, Len(CountryCode) + 1, Len(p)),
     PhoneNumber |-> p]

PushPayload(p) == [PartyA |-> p, PhoneNumber |-> p]

\* One call of initiate_stk_push / query_stk_push: its argument, the payment
\* data it built, the requests it made to the gateway and to the token
\* endpoint, the gateway's answer and how the call ended.
ApiCall(op, p, encrypted_phone, requests, reply, outcome) ==
    [op |-> op, phone_number |-> p, encrypted_phone |-> encrypted_phone,
     requests |-> requests, token_requests |-> 0, reply |-> reply,
     outcome |-> outcome]

\* l.417-419: the result returned for a phone number that was refused
RejectedCall(p) == ApiCall("push", p, PyNone, 0, "none", "ResponseCode 1")

\* The answers a call with the number p can get: none when nothing is sent.
RepliesTo(p) ==
    IF sanitize_phone_number(p).outcome = "ValueError" THEN {"none"}
    ELSE GatewayReplies

\* initiate_stk_push (l.328-422): the client after the call, made with the
\* number p, the nonce iv drawn for the encryption and the answer reply.
initiate_stk_push(p, iv, reply) ==
    LET sanitized_phone == sanitize_phone_number(p)
    IN  IF sanitized_phone.outcome = "ValueError"
        THEN [client EXCEPT !.call = RejectedCall(p), !.sent = NothingSent]
        ELSE LET encrypted_phone ==
                     encrypt(handler.key, iv, Str(sanitized_phone.value)).value
                 decrypted_phone == decrypt(handler.key, encrypted_phone).value
                 payload == PushPayload(decrypted_phone.str)
             IN  [client EXCEPT
                    !.sent = [kind |-> "push",
                              authorization |-> Bearer(handler.access_token),
                              PartyA |-> payload.PartyA,
                              PhoneNumber |-> payload.PhoneNumber,
                              Timestamp |-> handler.timestamp,
                              Password |-> handler.password,
                              at |-> clock],
                    !.call = ApiCall("push", p, encrypted_phone, 1, reply,
                                     PushOutcome(reply))]

\* initiate_stk_push called with any number.
InitiateStkPush ==
    /\ handler.state = "built"
    /\ \E p \in PushPhones, iv \in Nonces :
          \E reply \in RepliesTo(p) :
             client' = initiate_stk_push(p, iv, reply)
    /\ UNCHANGED <<app, phone, vault, endpoint, editor>>

\* query_stk_push (l.424-456)
QueryStkPush ==
    /\ handler.state = "built"
    /\ IF "SAF_STK_PUSH_QUERY_API" \notin environ
       THEN client' = [client EXCEPT
                          !.call = ApiCall("query", <<>>, PyNone, 0, "none",
                                           "raised"),
                          !.sent = NothingSent]
       ELSE \E reply \in GatewayReplies :
               client' = [client EXCEPT
                  !.sent = [kind |-> "query",
                            authorization |-> handler.authorization,
                            PartyA |-> <<>>, PhoneNumber |-> <<>>,
                            Timestamp |-> handler.timestamp,
                            Password |-> handler.password,
                            at |-> clock],
                  !.call = ApiCall("query", <<>>, PyNone, 1, reply,
                                   QueryOutcome(reply))]
    /\ UNCHANGED <<app, phone, vault, endpoint, editor>>

\* Gaps by which the client's clock moves between two operations; the clock
\* counts from the construction of the handler.
ClockSteps == {TokenLifetime, TokenLifetime + 1}

ClientTick ==
    /\ handler.state = "built"
    /\ \E d \in ClockSteps :
          /\ clock + d <= MaxClock
          /\ client' = [client EXCEPT !.clock = clock + d]
    /\ UNCHANGED <<app, phone, vault, endpoint, editor>>

ClientInit ==
    /\ AppInit
    /\ PhoneIdle
    /\ EndpointIdle
    /\ EditorIdle
    /\ vault \in {NewVault(env, PyNone) : env \in {Unset, "password1"}}
    /\ client \in {NewClient(env) : env \in Environments}

ClientNext ==
    \/ NewMpesaHandler
    \/ InitiateStkPush
    \/ QueryStkPush
    \/ ClientTick

ClientSpec == ClientInit /\ [][ClientNext]_vars

\* ------------------------------------- properties of the gateway client
\* C11 (as claimed): a request made after the cached token's expiry time is
\* preceded by a new token; no push or status request carries a token whose
\* expiry time has passed.
C11_NoExpiredTokenSent ==
    (sent.kind # "none" /\ ~handler.access_token.is_none) =>
        sent.at <= handler.access_token_expiration

\* C12 (as claimed): a push or status request the gateway refuses for its
\* token is followed by one token refresh and exactly one retry.
C12_AuthFailureRetriedOnce ==
    (call.op # "none" /\ call.reply = "auth_error") =>
        call.requests = 2 /\ call.token_requests = 1

\* The token endpoint's answers that token acquisition has to refuse.
BadTokenReply(r) ==
    /\ ~r.raised
    /\ \/ r.status \notin 200..299
       \/ ~r.is_json
       \/ ~r.has_token
       \/ Len(r.token) < MinTokenLen

\* C13 (as claimed): after a non-2xx status, a body that is not JSON, a body
\* without access_token or a token of fewer than 10 characters, token
\* acquisition fails and no usable client exists; a usable client holds a
\* token of at least 10 characters.
C13_BadTokenReplyLeavesNoClient ==
    handler.state = "built" =>
        /\ ~BadTokenReply(handler.token_reply)
        /\ ~handler.token_reply.raised =>
              /\ ~handler.access_token.is_none
              /\ Len(handler.access_token.str) >= MinTokenLen

\* C16: a push request carries PartyA = PhoneNumber = the sanitised form of
\* the number passed in (12 digits beginning with 254), which is what the
\* payment data holds encrypted; a number that cannot be sanitised is not
\* sent at all.
C16_PushCarriesSanitizedPhone ==
    call.op = "push" =>
        IF call.requests = 0
        THEN sanitize_phone_number(call.phone_number) = ValueError
        ELSE /\ sent.kind = "push"
             /\ sent.PartyA = sent.PhoneNumber
             /\ Len(sent.PartyA) = MsisdnLen
             /\ startswith(sent.PartyA, CountryCode)
             /\ \A i \in 1..Len(sent.PartyA) : IsDigit(sent.PartyA[i])
             /\ sanitize_phone_number(call.phone_number) = Returned(sent.PhoneNumber)
             /\ call.encrypted_phone # Str(sent.PhoneNumber)
             /\ decrypt(handler.key, call.encrypted_phone) = Gave(Str(sent.PhoneNumber))

\* 0712345678 was passed in and 254712345678 was sent
C16_Witness ==
    /\ call.op = "push"
    /\ call.requests = 1
    /\ call.phone_number = TrunkPrefix \o Subscriber
    /\ sent.PartyA = CountryCode \o Subscriber
    /\ sent.PhoneNumber = CountryCode \o Subscriber

\* C20 (as claimed): MpesaHandler is built only if every one of the nine
\* settings is present, and the encryption passphrase alone may be absent.
C20_MissingSettingFailsConstruction ==
    /\ handler.state = "built" => Settings \subseteq environ
    /\ (handler.state # "none" /\ Settings \subseteq environ) =>
          handler.state = "built"

\* C26 (as claimed): each push request carries a Timestamp written at the
\* time of that request and the Password base64(shortcode + passkey + that
\* Timestamp); two push requests made at different times by one handler
\* carry different Timestamp / Password pairs.
C26_FreshTimestampPerPush ==
    /\ [](sent.kind = "push" =>
             /\ sent.Timestamp = strftime(sent.at)
             /\ sent.Password = generate_password(sent.Timestamp))
    /\ [][ (sent.kind = "push" /\ sent'.kind = "push"
             /\ sent'.at # sent.at /\ handler' = handler) =>
               <<sent'.Timestamp, sent'.Password>>
                   # <<sent.Timestamp, sent.Password>> ]_vars

\* C27 (as claimed): a call of initiate_stk_push or query_stk_push sends its
\* request once, and when the request fails at the network level, is answered
\* with a non-2xx status or with a body that does not parse, the call ends in
\* an error raised to the caller, never in a returned result or a validation
\* result.
C27_TransportFailureRaised ==
    call.op # "none" =>
        /\ call.requests <= 1
        /\ (call.requests = 1 /\
            (call.reply = "network_error" \/ call.reply \in Non2xx
                \/ JsonRaises(call.reply))) =>
               call.outcome = "raised"

\* ------------------------- the payment form of enhance_sidebar (app.py)
\* validate_phone_number (app.py l.593-599)
validate_phone_number(p) ==
    /\ startswith(p, CountryCode)
    /\ Len(p) = MsisdnLen
    /\ \A i \in 1..Len(p) : IsDigit(p[i])

\* app.py l.862: 'ResponseCode' in response and response['ResponseCode'] == '0'
ResponseAccepted_AnyResult(c) == c.outcome # "raised"

ResponseAccepted(c) == c.outcome = "returned" /\ c.reply = "accepted"

\* What can be typed in the form: "if submitted and phone" leaves out the
\* empty input.
FormPhones == (PushPhones \ {<<>>}) \cup {CountryCode \o Subscriber}

\* The form as shown: nothing submitted yet.
NoSubmission == [phone_number |-> <<>>, sanitized |-> NoCall]

\* The "Pay Now" form (app.py l.847-873), shown once a document has been
\* generated: a number that validate_phone_number accepts is handed to
\* initiate_stk_push, and update_payment_status is called with the
\* CheckoutRequestID of the response if the response is an acceptance.
PayNowForm ==
    /\ pc = "idle"
    /\ handler.state = "built"
    /\ current_document_id # NoDoc
    /\ \E p \in FormPhones :
          IF ~validate_phone_number(p)
          THEN /\ phone' = [phone_number |-> p, sanitized |-> NoCall]
               /\ UNCHANGED <<app, client>>
          ELSE \E iv \in Nonces, a \in Amounts, reply \in RepliesTo(p) :
                 /\ phone' = [phone_number |-> p,
                              sanitized |-> sanitize_phone_number(p)]
                 /\ client' = initiate_stk_push(p, iv, reply)
                 /\ IF ResponseAccepted(client'.call)
                    THEN /\ NewCheckouts # {}
                         /\ \E c \in NewCheckouts :
                               /\ initiated_for' =
                                     [initiated_for EXCEPT
                                         ![c] = current_document_id]
                               /\ update_payment_status(c, a)
                         /\ last_op' = "pay"
                         /\ ForgetCall
                         /\ UNCHANGED <<now, result, downloads>>
                    ELSE UNCHANGED app
    /\ UNCHANGED <<vault, endpoint, editor>>

\* The token endpoint's answer that carries a usable token.
TokenGranted == Reply(HttpOk, TRUE, TRUE, Token(MinTokenLen))

\* A session after init_session_state (app.py l.39-70) with every setting
\* in place: MpesaHandler() has been called (l.51-52) and got its token.
FormInit ==
    /\ AppInit
    /\ EndpointIdle
    /\ EditorIdle
    /\ phone = NoSubmission
    /\ vault = NewVault("password1", PyNone)
    /\ client = [NewClient(Settings) EXCEPT !.handler =
                    MpesaHandler(Settings, "password1", 0, Unset, TokenGranted)]

FormNext ==
    \/ reset_payment_state
    \/ PayNowForm
    \/ InitiateStkPush

FormSpec == FormInit /\ [][FormNext]_vars

\* C28: when the number given to initiate_stk_push fails sanitization, no
\* request is sent and nothing is encrypted, the call raises nothing and
\* returns the result with ResponseCode '1', which the application does not
\* take for an acceptance; a form submitted with such a number leaves
\* payment_status and payment_verified as they were and sends nothing, and a
\* record is bound only after the gateway accepted a push for the number
\* submitted.
C28_RefusedNumberBindsNothing ==
    /\ [](call.op = "push" /\
             sanitize_phone_number(call.phone_number) = ValueError =>
               /\ call.requests = 0
               /\ sent = NothingSent
               /\ call.encrypted_phone = PyNone
               /\ call.outcome = "ResponseCode 1"
               /\ ~ResponseAccepted(call))
    /\ [][ (phone' # phone /\
             sanitize_phone_number(phone'.phone_number) = ValueError) =>
               UNCHANGED <<payment_status, payment_verified, client>> ]_vars
    /\ [][ (payment_status' # None /\ payment_status' # payment_status) =>
               /\ call'.op = "push"
               /\ call'.phone_number = phone'.phone_number
               /\ call'.requests = 1
               /\ call'.reply = "accepted"
               /\ call'.outcome = "returned"
               /\ sanitize_phone_number(call'.phone_number) # ValueError ]_vars

\* five digits were typed in the form and then handed to initiate_stk_push
\* directly, in a session that has a document and no payment record
C28_Witness ==
    /\ current_document_id = 1
    /\ phone.phone_number = SubSeq(TailDigits, 1, 5)
    /\ call.op = "push"
    /\ call.phone_number = SubSeq(TailDigits, 1, 5)
    /\ call.outcome = "ResponseCode 1"
    /\ call.requests = 0
    /\ payment_status = None /\ ~payment_verified

\* ================================================ endpoint.py (l.1-19)
MaxCallbacks == 2     \* requests the callback endpoint answers

CallbackOk == 200             \* return jsonify({"status": "success"}), 200
CallbackRejected == 400       \* return jsonify({"status": "error"}), 400
ServerError == 500            \* an exception escaping the view function

\* l.1 imports Flask, request and jsonify; the json module that l.10 uses is
\* not imported.
JsonImported == FALSE

ContentTypes == {"application/json", "text/plain"}

Body(kind, code, id) ==
    [kind |-> kind, ResultCode |-> code, CheckoutRequestID |-> id]

\* The bodies POSTed: none, an empty one, text that is not JSON, the JSON
\* values Python takes for false, and a callback payload reporting a result.
ResultCodes == {"0", "1032", "1037"}
Bodies ==
    {Body(k, "", NoCheckout) :
        k \in {"absent", "empty", "malformed",
               "null", "{}", "[]", "0", "false", "empty string"}}
    \cup {Body("stkCallback", r, c) : r \in ResultCodes, c \in CheckoutIds}

IsJson(b) == b.kind \notin {"absent", "empty", "malformed"}
\* "if callback_data"
Truthy(b) == b.kind = "stkCallback"

\* request.json (l.8): the parsed body, or the error response Flask aborts
\* with.  A body that does not parse is a 400; a content type that is not
\* JSON gives None, a 400 or a 415 depending on the Flask release installed.
FlaskAborts == {400, 415}
get_json(content_type, b) ==
    IF content_type # "application/json"
    THEN {[aborted |-> 0, parsed |-> FALSE]}
         \cup {[aborted |-> a, parsed |-> FALSE] : a \in FlaskAborts}
    ELSE IF ~IsJson(b)
    THEN {[aborted |-> CallbackRejected, parsed |-> FALSE]}
    ELSE {[aborted |-> 0, parsed |-> TRUE]}

\* mpesa_callback (l.5-16)
MpesaCallback ==
    /\ served < MaxCallbacks
    /\ \E content_type \in ContentTypes, b \in Bodies :
          \E got \in get_json(content_type, b) :
             endpoint' =
                [served |-> served + 1,
                 callback |->
                   [content_type |-> content_type, body |-> b,
                    status |-> IF got.aborted # 0 THEN got.aborted
                               ELSE IF ~JsonImported THEN ServerError
                               ELSE IF got.parsed /\ Truthy(b) THEN CallbackOk
                               ELSE CallbackRejected,
                    answer |-> IF got.aborted # 0 \/ ~JsonImported
                               THEN "error page"
                               ELSE IF got.parsed /\ Truthy(b) THEN "success"
                               ELSE "error"]]
    /\ UNCHANGED <<app, phone, vault, client, editor>>

\* The Flask application as app.run starts it.
EndpointInit ==
    /\ AppInit
    /\ PhoneIdle
    /\ VaultIdle
    /\ ClientIdle
    /\ EditorIdle
    /\ endpoint = [served |-> 0, callback |-> NoExchange]

EndpointNext == MpesaCallback

EndpointSpec == EndpointInit /\ [][EndpointNext]_vars

\* C19 (as claimed): a POST with a JSON body is answered 200
\* {"status":"success"} whatever result it reports, a POST with no body or an
\* empty one 400 {"status":"error"}, and no request gets any other response.
C19_CallbackAnswers ==
    callback # NoExchange =>
        /\ (callback.content_type = "application/json"
            /\ callback.body.kind = "stkCallback") =>
               callback.status = CallbackOk /\ callback.answer = "success"
        /\ callback.body.kind \in {"absent", "empty"} =>
               callback.status = CallbackRejected /\ callback.answer = "error"
        /\ \/ callback.status = CallbackOk /\ callback.answer = "success"
           \/ callback.status = CallbackRejected /\ callback.answer = "error"
====
